---- MODULE Spec2Model ----
(***************************************************************************)
(* Smart Social Filter: the batch classification pipeline.                 *)
(*                                                                         *)
(* The background script (src/unnamed/part_000) answers filterBatch        *)
(* messages with one classifier call per batch and aligns the reply to the *)
(* batch; the content script (src/content.js) scans the timeline, submits  *)
(* the never-seen units in batches and hides the units the results flag.   *)
(***************************************************************************)
EXTENDS Integers, Sequences, FiniteSets, TLC

(***************************************************************************)
(* Bounds of the model.                                                    *)
(***************************************************************************)
\* Units (DOM nodes) the timeline can hold.
MaxUnits == 2
\* Nodes the page can hold when it is followed for the scan alone.
MaxNodes == 3
\* Scan rounds that submit a batch (one per node at most).
MaxRounds == 3
\* Tweets of a filterBatch message sent to the background script directly.
MaxBatch == 2
\* Entries of the "results" list of a classifier payload.
MaxEntries == 2
\* Clicks on the buttons of the popup.
MaxClicks == 2
\* Debounce timers that can be pending together.
MaxTimers == 2

VARIABLES
    pc,               \* position of initializeFilter (content.js:12-40)
    aiAvailable,      \* this.aiAvailable
    filters,          \* this.filters
    processedTweets,  \* this.processedTweets, the seen-set
    isProcessing,     \* this.isProcessing: a debounce timer is pending
    present,          \* units in the document
    hasText,          \* units whose extracted text is non-empty
    filtered,         \* units carrying the class filtered-content
    revealed,         \* units carrying the class content-revealed
    overlays,         \* unit -> the overlays appended to it, in order
    requests,         \* the messages to the background script, in the order they were sent
    lastCall,         \* the latest call of a method of the class made from outside it
    storage,          \* chrome.storage.sync: the value stored under "filters"
    popup,            \* the saveFilter and clearAllFilters calls of the popup, in click order
    timers            \* the setTimeout callbacks of the observer that are pending

vars == <<pc, aiAvailable, filters, processedTweets, isProcessing, present,
          hasText, filtered, revealed, overlays, requests, lastCall, storage,
          popup, timers>>

contentVars == <<pc, aiAvailable, filters, processedTweets, isProcessing,
                 present, hasText, filtered, revealed, overlays, lastCall,
                 storage, popup, timers>>

(***************************************************************************)
(* Values.                                                                 *)
(***************************************************************************)
Units == 1..MaxUnits

\* The nodes of the page, in document order; the units are the first of them.
Nodes == 1..MaxNodes

\* const MODEL_NAME
MODEL_NAME == "gemini-1.5-flash-latest"

\* A property a JavaScript object does not have.
Undefined == "undefined"

\* The rule lists the popup can store.
FilterLists == { <<>>, <<"political content">> }

\* The rule lists of a filterBatch message sent to the background script directly.
MessageFilterLists == FilterLists \cup { <<"crypto", "political content">> }

Min(a, b) == IF a < b THEN a ELSE b
Max(a, b) == IF a > b THEN a ELSE b

(***************************************************************************)
(* The classifier's reply.  A payload entry is null or an object; a        *)
(* numeric property is <<>> when the object lacks it and <<v>> otherwise;  *)
(* a string property is "" when it is null or missing.                     *)
(***************************************************************************)
NullEntry == [null |-> TRUE]

IsNull(e) == "null" \in DOMAIN e

ConfidenceValues == { <<>>, <<-5>>, <<0>>, <<85>>, <<150>> }

IndexValues == { <<>> } \cup { <<i>> : i \in 1..MaxBatch }

ObjectEntries ==
    { [tweetIndex |-> t, shouldFilter |-> s, confidence |-> c,
       matchedFilter |-> (IF s THEN "spam" ELSE ""), reasoning |-> "x"] :
         t \in IndexValues, s \in BOOLEAN, c \in ConfidenceValues }

Entries == ObjectEntries \cup { NullEntry }

SeqsUpTo(S, n) == UNION { [1..k -> S] : k \in 0..n }

\* What the fetch of one batch call can end in.
\*   network          fetch rejects
\*   http             a non-2xx status
\*   okNotJson        success status, the body is not JSON
\*   okNoEnvelope     success status, JSON without candidates[0].content.parts[0].text
\*   textInvalid      the payload text is not JSON
\*   jsonNull         the payload text is the JSON value null
\*   noResults        the payload is JSON without a (truthy) results property
\*   resultsNotArray  results is a truthy value that is not an array
\*   results          results is an array
Outcome(kind, status, results) == [kind |-> kind, status |-> status, results |-> results]

\* No fetch was made or awaited.
NoOutcome(kind) == Outcome(kind, 0, <<>>)

ShapelessOutcomes ==
    { Outcome(k, 200, <<>>) : k \in {"okNotJson", "okNoEnvelope", "textInvalid",
                                     "jsonNull", "noResults", "resultsNotArray"} }
    \cup { Outcome("network", 0, <<>>), Outcome("http", 429, <<>>), Outcome("http", 500, <<>>) }

Outcomes == ShapelessOutcomes
            \cup { Outcome("results", 200, rs) : rs \in SeqsUpTo(Entries, MaxEntries) }

(***************************************************************************)
(* analyzeBatchWithAPI                                                     *)
(***************************************************************************)
\* Faulty variant of NoFiltersActive: only !filters is tested, and an empty
\* array is truthy.
NoFiltersActiveMissingLength(fl) == FALSE

\* if (!filters || filters.length === 0)
NoFiltersActive(fl) == Len(fl) = 0

NoFiltersResult ==
    [shouldFilter |-> FALSE, confidence |-> Undefined, method |-> "No Filters Active",
     reason |-> "No filters configured",
     details |-> "Add filters to enable content filtering", error |-> Undefined]

\* Faulty variant of NormalizeConfidence: the value is not clamped.
NormalizeConfidenceNoClamp(conf) ==
    LET c == IF conf = <<>> \/ conf[1] = 0 THEN 50 ELSE conf[1]
    IN  ToString(c) \o "%"

\* Faulty variant of NormalizeConfidence: ?? in place of ||, so that 0 is kept.
NormalizeConfidenceNullish(conf) ==
    LET c == IF conf = <<>> THEN 50 ELSE conf[1]
    IN  ToString(Min(100, Max(1, c))) \o "%"

\* `${Math.min(100, Math.max(1, apiResult.confidence || 50))}%`
NormalizeConfidence(conf) ==
    LET c == IF conf = <<>> \/ conf[1] = 0 THEN 50 ELSE conf[1]
    IN  ToString(Min(100, Max(1, c))) \o "%"

SyntheticDefault ==
    [tweetIndex |-> <<>>, shouldFilter |-> FALSE, confidence |-> <<0>>,
     matchedFilter |-> "", reasoning |-> "No result returned"]

\* apiResults.find(r => r.tweetIndex === i), started at list position k: the
\* position of the first entry declaring i, 0 when there is none, -1 when a
\* null entry is read first (r.tweetIndex throws a TypeError).
RECURSIVE FindIndex(_, _, _)
FindIndex(apiResults, i, k) ==
    IF k > Len(apiResults) THEN 0
    ELSE IF IsNull(apiResults[k]) THEN -1
    ELSE IF apiResults[k].tweetIndex = <<i>> THEN k
    ELSE FindIndex(apiResults, i, k + 1)

\* The list position of the entry the tweet i gets: that of the first entry
\* declaring i, else i itself when the list is that long, else 0 (none).
ApiResultPosition(apiResults, i) ==
    LET k == FindIndex(apiResults, i, 1)
    IN  IF k > 0 THEN k
        ELSE IF i <= Len(apiResults) THEN i
        ELSE 0

\* Faulty variant of ApiResultFor: the entry at the list position comes first.
ApiResultForPositional(apiResults, i) ==
    LET k == FindIndex(apiResults, i, 1)
    IN  IF i <= Len(apiResults) /\ ~IsNull(apiResults[i]) THEN apiResults[i]
        ELSE IF k > 0 THEN apiResults[k]
        ELSE SyntheticDefault

\* apiResults.find(...) || apiResults[index] || { synthetic default }
ApiResultFor(apiResults, i) ==
    LET k == ApiResultPosition(apiResults, i)
    IN  IF k > 0 THEN apiResults[k] ELSE SyntheticDefault

ProcessedResult(apiResult) ==
    [shouldFilter |-> apiResult.shouldFilter,
     confidence |-> NormalizeConfidence(apiResult.confidence),
     method |-> MODEL_NAME \o " Batch API",
     reason |-> (IF apiResult.matchedFilter # "" THEN apiResult.matchedFilter
                 ELSE "No filter matched"),
     details |-> (IF apiResult.reasoning # "" THEN apiResult.reasoning
                  ELSE "Batch analysis completed"),
     error |-> Undefined]

\* Faulty variant of ProcessedResults: no result for the tweets past the end
\* of the payload.
ProcessedResultsTruncated(n, apiResults) ==
    [i \in 1..Min(n, Len(apiResults)) |-> ProcessedResult(ApiResultFor(apiResults, i))]

\* tweets.map((tweet, index) => ...) over the n tweets of the batch
ProcessedResults(n, apiResults) ==
    [i \in 1..n |-> ProcessedResult(ApiResultFor(apiResults, i))]

ParseErrorResult ==
    [shouldFilter |-> FALSE, confidence |-> "0%",
     method |-> MODEL_NAME \o " Batch API - Parse Error",
     reason |-> "JSON parsing failed",
     details |-> "API returned invalid JSON format", error |-> Undefined]

\* Faulty variant of ParseErrorResults: the catch falls back to the results of
\* an empty payload.
ParseErrorResultsUntagged(n) == ProcessedResults(n, <<>>)

\* The catch of the inner try: one fallback result per tweet.
ParseErrorResults(n) == [i \in 1..n |-> ParseErrorResult]

\* Whether the inner try throws: JSON.parse of the text, parsed.results of
\* null, apiResults.find of a value that has no find, r.tweetIndex of null.
InnerTryThrows(n, o) ==
    \/ o.kind \in {"textInvalid", "jsonNull", "resultsNotArray"}
    \/ /\ o.kind = "results"
       /\ \E i \in 1..n : FindIndex(o.results, i, 1) = -1

\* Whether the call rejects: the outer try rethrows what it catches.
OuterTryThrows(o) == o.kind \in {"network", "http", "okNotJson", "okNoEnvelope"}

\* error.message of what the outer try rethrows
ErrorMessage(o) ==
    CASE o.kind = "network"      -> "Failed to fetch"
      [] o.kind = "http"         -> "API error: " \o ToString(o.status)
      [] o.kind = "okNotJson"    -> "Unexpected token in JSON"
      [] o.kind = "okNoEnvelope" -> "Cannot read properties of undefined"
      [] OTHER                   -> Undefined

\* The value analyzeBatchWithAPI resolves to once the fetch ended in o.
AlignedResults(n, o) ==
    IF InnerTryThrows(n, o) THEN ParseErrorResults(n)
    ELSE ProcessedResults(n, IF o.kind = "results" THEN o.results ELSE <<>>)

(***************************************************************************)
(* The filterBatch handler of chrome.runtime.onMessage                     *)
(***************************************************************************)
BatchErrorResult(message) ==
    [shouldFilter |-> FALSE, confidence |-> Undefined, method |-> "Batch Error",
     reason |-> Undefined, details |-> message, error |-> "Batch API analysis failed"]

\* Faulty variant of ErrorResults: one error object for the batch, as the
\* filterContent handler answers.
ErrorResultsSingle(n, message) == << BatchErrorResult(message) >>

\* message.tweets.map(() => ({ ... }))
ErrorResults(n, message) == [i \in 1..n |-> BatchErrorResult(message)]

Round(batchEntries, fl) ==
    [batchEntries |-> batchEntries, filters |-> fl, status |-> "sent",
     fetchCalls |-> 0, outcome |-> NoOutcome("none"), results |-> <<>>]

\* The handler runs analyzeBatchWithAPI up to its first await: without rules it
\* answers at once, otherwise the fetch is issued.
HandleFilterBatch(r) ==
    /\ r \in DOMAIN requests
    /\ requests[r].status = "sent"
    /\ LET n == Len(requests[r].batchEntries)
       IN  IF NoFiltersActive(requests[r].filters)
           THEN requests' = [requests EXCEPT
                    ![r].status = "responded",
                    ![r].outcome = NoOutcome("noFilters"),
                    ![r].results = [i \in 1..n |-> NoFiltersResult]]
           ELSE requests' = [requests EXCEPT
                    ![r].status = "fetching",
                    ![r].fetchCalls = @ + 1]
    /\ UNCHANGED contentVars

\* The fetch ends in o and analyzeBatchWithAPI settles; the handler sends the
\* response.  outcome keeps o for as long as the round lasts.
FetchCompletes(r, o) ==
    /\ r \in DOMAIN requests
    /\ requests[r].status = "fetching"
    /\ LET n == Len(requests[r].batchEntries)
       IN  requests' = [requests EXCEPT
               ![r].status = "responded",
               ![r].outcome = o,
               ![r].results = IF OuterTryThrows(o)
                              THEN ErrorResults(n, ErrorMessage(o))
                              ELSE AlignedResults(n, o)]
    /\ UNCHANGED contentVars

\* An extension page sends { action: 'filterBatch', tweets, filters }; the
\* handler keeps no state between messages, so one message is followed alone.
FilterBatchMessage(n, fl) ==
    /\ requests = <<>>
    /\ requests' = Append(requests, Round([i \in 1..n |-> i], fl))
    /\ UNCHANGED contentVars

(***************************************************************************)
(* analyzeContentWithAPI and the filterContent handler (legacy)            *)
(***************************************************************************)
\* The outcomes of the fetch of analyzeContentWithAPI: the failures of the
\* batch call, and the payload texts that parse to one object.
ContentOutcomes ==
    { o \in ShapelessOutcomes : o.kind \notin {"noResults", "resultsNotArray"} }
    \cup { Outcome("object", 200, << e >>) : e \in ObjectEntries }

\* Whether the try block throws: the fetch, the status test, response.json(),
\* the envelope, JSON.parse, parsed.shouldFilter of null.
ContentTryThrows(o) == o.kind # "object"

\* error.message of what the try block throws
ContentErrorMessage(o) ==
    CASE o.kind = "textInvalid" -> "Unexpected token in JSON"
      [] o.kind = "jsonNull"    -> "Cannot read properties of null"
      [] OTHER                  -> ErrorMessage(o)

\* The object the catch of analyzeContentWithAPI and the catch of the handler
\* answer with.
ContentErrorResult(message) ==
    [shouldFilter |-> FALSE, confidence |-> Undefined, method |-> "Error",
     reason |-> Undefined, details |-> message, error |-> "API analysis failed"]

\* `${parsed.confidence || 50}%`
ContentConfidence(conf) ==
    LET c == IF conf = <<>> \/ conf[1] = 0 THEN 50 ELSE conf[1]
    IN  ToString(c) \o "%"

\* The value analyzeContentWithAPI resolves to once the fetch ended in o.
AnalyzeContentResult(o) ==
    IF ContentTryThrows(o) THEN ContentErrorResult(ContentErrorMessage(o))
    ELSE LET parsed == o.results[1]
         IN  [shouldFilter |-> parsed.shouldFilter,
              confidence |-> ContentConfidence(parsed.confidence),
              method |-> MODEL_NAME \o " API",
              reason |-> IF parsed.matchedFilter # "" THEN parsed.matchedFilter
                         ELSE "No filter matched",
              details |-> IF parsed.reasoning # "" THEN parsed.reasoning
                          ELSE "Analysis completed",
              error |-> Undefined]

\* A filterContent message arrives; it is followed alone.
FilterContentMessage(text, fl) ==
    /\ requests = <<>>
    /\ requests' = Append(requests,
           [action |-> "filterContent", text |-> text, filters |-> fl,
            status |-> "sent", fetchCalls |-> 0, outcome |-> NoOutcome("none"),
            result |-> ContentErrorResult("")])
    /\ UNCHANGED contentVars

\* The handler runs analyzeContentWithAPI up to its await: the fetch is
\* issued, whatever the rules.
HandleFilterContent(r) ==
    /\ r \in DOMAIN requests
    /\ requests[r].status = "sent"
    /\ requests' = [requests EXCEPT
           ![r].status = "fetching",
           ![r].fetchCalls = @ + 1]
    /\ UNCHANGED contentVars

\* The fetch of round r ends in o and the handler answers.
ContentFetchCompletes(r, o) ==
    /\ r \in DOMAIN requests
    /\ requests[r].status = "fetching"
    /\ requests' = [requests EXCEPT
           ![r].status = "responded",
           ![r].outcome = o,
           ![r].result = AnalyzeContentResult(o)]
    /\ UNCHANGED contentVars

(***************************************************************************)
(* checkAPIStatus and the checkAPI handler                                 *)
(***************************************************************************)
\* const API_KEY as the source has it.
API_KEY == ""

\* The keys a build of the background script is made with: none, the
\* placeholder, a key of the owner.
ApiKeys == { API_KEY, "YOUR_GOOGLE_API_KEY", "AIzaSyOwnerKey" }

\* !(!API_KEY || API_KEY === 'YOUR_GOOGLE_API_KEY')
KeyConfigured(apiKey) == ~(apiKey = "" \/ apiKey = "YOUR_GOOGLE_API_KEY")

\* The outcome of the probe call: the fetch rejects, or a response arrives
\* with a status and a body (an error object with a message, an object
\* without one, the JSON null, not JSON).
Probe(kind, status, body) == [kind |-> kind, status |-> status, body |-> body]

NoProbe == Probe("none", 0, "")

ProbeOutcomes ==
    { Probe("network", 0, ""), Probe("response", 200, "candidates") }
    \cup { Probe("response", st, body) :
             st \in {400, 403, 429, 500},
             body \in {"errorMessage", "noMessage", "null", "notJson"} }

\* response.ok
ResponseOk(o) == o.status \in 200..299

Returned(value) == [threw |-> FALSE, message |-> "", value |-> value]

Thrown(message) == [threw |-> TRUE, message |-> message, value |-> [available |-> FALSE]]

\* Faulty variant of ProbeTry: the test of response.ok is missing.
ProbeTryAnyResponse(o) ==
    IF o.kind = "network" THEN Thrown("Failed to fetch")
    ELSE Returned([available |-> TRUE, model |-> MODEL_NAME, error |-> Undefined])

\* The try block of checkAPIStatus: what it returns or throws.
ProbeTry(o) ==
    IF o.kind = "network" THEN Thrown("Failed to fetch")
    ELSE IF ~ResponseOk(o)
         THEN IF o.body = "notJson" THEN Thrown("Unexpected token < in JSON at position 0")
              ELSE IF o.body = "null"
                   THEN Thrown("Cannot read properties of null (reading 'error')")
              ELSE IF o.body = "errorMessage"
                   THEN Thrown("API error: Quota exceeded")
              ELSE Thrown("API error: " \o ToString(o.status))
    ELSE Returned([available |-> TRUE, model |-> MODEL_NAME, error |-> Undefined])

\* checkAPIStatus() of a build with the key apiKey, the probe ending in o
CheckAPIStatus(apiKey, o) ==
    IF ~KeyConfigured(apiKey)
    THEN Returned([available |-> FALSE, model |-> Undefined,
                   error |-> "API key not configured. Please add your Google AI API key to background.js"])
    ELSE LET try == ProbeTry(o)
         IN  IF try.threw
             THEN Returned([available |-> FALSE, model |-> Undefined,
                            error |-> "API not accessible: " \o try.message])
             ELSE try

\* checkAPIStatus().then(sendResponse).catch(error => sendResponse({ ... }))
CheckAPIResponse(status) ==
    IF status.threw
    THEN [available |-> FALSE, model |-> Undefined, error |-> status.message]
    ELSE status.value

\* A checkAPI message arrives at a build with the key apiKey.
CheckAPIMessage(apiKey) ==
    /\ Len(requests) < MaxRounds
    /\ requests' = Append(requests,
           [action |-> "checkAPI", apiKey |-> apiKey, status |-> "sent",
            fetchCalls |-> 0, outcome |-> NoProbe, threw |-> FALSE,
            result |-> [available |-> FALSE]])
    /\ UNCHANGED contentVars

\* The handler calls checkAPIStatus(): it returns at once without a key, and
\* issues the probe call with one.
HandleCheckAPI(r) ==
    /\ r \in DOMAIN requests
    /\ requests[r].status = "sent"
    /\ IF ~KeyConfigured(requests[r].apiKey)
       THEN LET status == CheckAPIStatus(requests[r].apiKey, NoProbe)
            IN  requests' = [requests EXCEPT
                    ![r].status = "responded",
                    ![r].threw = status.threw,
                    ![r].result = CheckAPIResponse(status)]
       ELSE requests' = [requests EXCEPT
                ![r].status = "probing",
                ![r].fetchCalls = @ + 1]
    /\ UNCHANGED contentVars

\* The probe call of round r ends in o.
ProbeCompletes(r, o) ==
    /\ r \in DOMAIN requests
    /\ requests[r].status = "probing"
    /\ LET status == CheckAPIStatus(requests[r].apiKey, o)
       IN  requests' = [requests EXCEPT
               ![r].status = "responded",
               ![r].outcome = o,
               ![r].threw = status.threw,
               ![r].result = CheckAPIResponse(status)]
    /\ UNCHANGED contentVars

(***************************************************************************)
(* The content script: the page                                            *)
(***************************************************************************)
\* const tweetSelectors, by priority:
\*   1  [data-testid="tweet"]   2  [data-testid="tweetText"]   3  article[role="article"]
TweetSelectors == 1..3

\* Unit numbers are the document order.  Every third unit is a
\* [data-testid="tweetText"] node outside of a post; the others are the
\* <article data-testid="tweet" role="article"> of a post.
SelectorsOf(u) == IF u % 3 = 0 THEN {2} ELSE {1, 3}

\* The text of a unit once it is rendered.
TextOf(u) ==
    IF u % 2 = 1 THEN "Congress passed a new voting bill today"
    ELSE "Lovely weather at the lake"

\* extractTweetText(el)
ExtractTweetText(u, textual) == IF u \in textual THEN TextOf(u) ELSE ""

\* The callback of the MutationObserver: arms the debounce timer unless one is pending.
ObserverCallback(observing, flag) == IF observing THEN TRUE ELSE flag

\* Faulty variant of TimerArmed: every notification arms a timer.
TimerArmedAlways(observing, flag) == observing

\* The callback calls setTimeout: if (!this.isProcessing).
TimerArmed(observing, flag) == observing /\ ~flag

(***************************************************************************)
(* keywordFilterContent and semanticMatch, the keyword heuristic           *)
(***************************************************************************)
UpperCase == "ABCDEFGHIJKLMNOPQRSTUVWXYZ"
LowerCase == "abcdefghijklmnopqrstuvwxyz"

\* The characters \w matches.
WordChars == UpperCase \o LowerCase \o "0123456789_"

\* The position of the character c in the string s, 0 when it is not in s.
RECURSIVE IndexOf(_, _, _)
IndexOf(s, c, k) ==
    IF k > Len(s) THEN 0
    ELSE IF SubSeq(s, k, k) = c THEN k
    ELSE IndexOf(s, c, k + 1)

\* String.prototype.toLowerCase
RECURSIVE ToLowerCase(_)
ToLowerCase(s) ==
    IF Len(s) = 0 THEN ""
    ELSE LET c == SubSeq(s, 1, 1)
             k == IndexOf(UpperCase, c, 1)
         IN  (IF k > 0 THEN SubSeq(LowerCase, k, k) ELSE c)
             \o ToLowerCase(SubSeq(s, 2, Len(s)))

\* String.prototype.includes
Includes(s, t) ==
    \E i \in 1..(Len(s) - Len(t) + 1) : SubSeq(s, i, i + Len(t) - 1) = t

\* String.prototype.split(' '), the word in progress being `word`
RECURSIVE SplitFrom(_, _, _)
SplitFrom(s, k, word) ==
    IF k > Len(s) THEN << word >>
    ELSE IF SubSeq(s, k, k) = " " THEN << word >> \o SplitFrom(s, k + 1, "")
    ELSE SplitFrom(s, k + 1, word \o SubSeq(s, k, k))

Split(s) == SplitFrom(s, 1, "")

\* const synonyms, in the order of Object.entries
Synonyms == <<
    << "political", << "politics", "election", "vote", "voting", "government",
         "politician", "congress", "senate", "president", "democratic", "republican",
         "liberal", "conservative", "policy", "campaign", "ballot", "candidate" >> >>,
    << "politics", << "political", "election", "vote", "voting", "government",
         "politician", "congress", "senate", "president", "democratic", "republican",
         "liberal", "conservative", "policy", "campaign" >> >>,
    << "crypto", << "cryptocurrency", "bitcoin", "ethereum", "blockchain", "nft",
         "defi", "web3", "metaverse", "token", "coin", "mining", "wallet", "exchange",
         "trading" >> >>,
    << "cryptocurrency", << "crypto", "bitcoin", "ethereum", "blockchain", "nft",
         "defi", "web3", "metaverse", "token", "coin", "mining" >> >>,
    << "bitcoin", << "btc", "crypto", "cryptocurrency", "blockchain", "mining",
         "satoshi" >> >>,
    << "sports", << "football", "basketball", "soccer", "baseball", "tennis", "golf",
         "hockey", "game", "match", "tournament", "championship", "playoff", "season",
         "team", "player", "coach", "stadium", "league" >> >>,
    << "football", << "nfl", "quarterback", "touchdown", "superbowl", "sports", "game",
         "match" >> >>,
    << "basketball", << "nba", "playoffs", "championship", "sports", "game", "match",
         "court" >> >>,
    << "negative", << "sad", "angry", "hate", "terrible", "awful", "bad", "depressing",
         "tragic", "horrible", "devastating", "outrage", "disgusting", "shocking" >> >>,
    << "toxic", << "hate", "angry", "disgusting", "terrible", "awful", "horrible",
         "nasty", "mean" >> >>,
    << "news", << "breaking", "report", "update", "alert", "happening", "developing",
         "latest", "urgent", "exclusive", "story" >> >>,
    << "breaking", << "news", "alert", "urgent", "developing", "happening", "latest",
         "update" >> >>,
    << "tech", << "technology", "software", "hardware", "computer", "programming",
         "coding", "developer", "startup", "innovation" >> >>,
    << "ai", << "artificial intelligence", "machine learning", "deep learning",
         "neural network", "chatgpt", "openai", "anthropic" >> >>,
    << "celebrity", << "famous", "star", "actor", "actress", "singer", "musician",
         "influencer", "tiktoker", "youtuber" >> >>,
    << "music", << "song", "album", "artist", "band", "concert", "tour", "spotify",
         "streaming" >> >>,
    << "finance", << "money", "stock", "investment", "trading", "market", "economy",
         "recession", "inflation", "bank" >> >>,
    << "stock", << "market", "trading", "investment", "shares", "nasdaq", "dow",
         "sp500", "finance" >> >>
>>

\* const partialMatches: the key and the stems of its regular expression
\* /\b(stem\w*|...)\b/i
PartialMatches == <<
    << "political", << "politic", "govern", "election", "campaign" >> >>,
    << "crypto", << "crypto", "bitcoin", "blockchain", "nft" >> >>,
    << "sports", << "sport", "game", "match", "playoff" >> >>,
    << "negative", << "hate", "angry", "terrible", "awful" >> >>
>>

\* text.match(/\b(stem\w*)\b/i): the stem starts a word of the text.  After
\* the stem \w* runs to the end of the word, where the closing \b holds.
StemMatch(text, stem) ==
    \E i \in 1..(Len(text) - Len(stem) + 1) :
        /\ ToLowerCase(SubSeq(text, i, i + Len(stem) - 1)) = stem
        /\ \/ i = 1
           \/ IndexOf(WordChars, SubSeq(text, i - 1, i - 1), 1) = 0

\* The first loop of semanticMatch, from the entry k of synonyms on: 0 when no
\* key is related to the word, else the entry whose words decide.
RECURSIVE RelatedKey(_, _)
RelatedKey(filterWord, k) ==
    IF k > Len(Synonyms) THEN 0
    ELSE IF Includes(filterWord, Synonyms[k][1]) \/ Includes(Synonyms[k][1], filterWord)
         THEN k
    ELSE RelatedKey(filterWord, k + 1)

\* semanticMatch(text, filterWord)
SemanticMatch(text, filterWord) ==
    LET k == RelatedKey(filterWord, 1)
    IN  IF k > 0
        THEN \E j \in DOMAIN Synonyms[k][2] : Includes(text, Synonyms[k][2][j])
        ELSE \E p \in DOMAIN PartialMatches :
                /\ Includes(filterWord, PartialMatches[p][1])
                /\ \E j \in DOMAIN PartialMatches[p][2] :
                       StemMatch(text, PartialMatches[p][2][j])

\* filterWords.filter(word => lowerText.includes(word) || semanticMatch(...)).length
MatchCount(lowerText, filterWords) ==
    Cardinality({ i \in DOMAIN filterWords :
                    \/ Includes(lowerText, filterWords[i])
                    \/ SemanticMatch(lowerText, filterWords[i]) })

\* (matchCount / filterWords.length * 100).toFixed(0)
ToFixed0(matchCount, length) == (200 * matchCount + length) \div (2 * length)

\* Faulty variant of KeywordFilterFrom: Math.floor in place of Math.ceil.
RECURSIVE KeywordFilterFromFloor(_, _, _)
KeywordFilterFromFloor(lowerText, fl, k) ==
    IF k > Len(fl)
    THEN [shouldFilter |-> FALSE, confidence |-> Undefined, method |-> "Keywords",
          reason |-> Undefined, details |-> Undefined, error |-> Undefined]
    ELSE LET filterWords == Split(ToLowerCase(fl[k]))
             matchCount == MatchCount(lowerText, filterWords)
         IN  IF matchCount >= Len(filterWords) \div 2
             THEN [shouldFilter |-> TRUE,
                   confidence |-> ToString(ToFixed0(matchCount, Len(filterWords))) \o "%",
                   method |-> "Keywords", reason |-> fl[k],
                   details |-> Undefined, error |-> Undefined]
             ELSE KeywordFilterFromFloor(lowerText, fl, k + 1)

\* keywordFilterContent(text), from the rule k of this.filters = fl on
RECURSIVE KeywordFilterFrom(_, _, _)
KeywordFilterFrom(lowerText, fl, k) ==
    IF k > Len(fl)
    THEN [shouldFilter |-> FALSE, confidence |-> Undefined, method |-> "Keywords",
          reason |-> Undefined, details |-> Undefined, error |-> Undefined]
    ELSE LET filterWords == Split(ToLowerCase(fl[k]))
             matchCount == MatchCount(lowerText, filterWords)
         IN  IF 2 * matchCount >= Len(filterWords)
             THEN [shouldFilter |-> TRUE,
                   confidence |-> ToString(ToFixed0(matchCount, Len(filterWords))) \o "%",
                   method |-> "Keywords", reason |-> fl[k],
                   details |-> Undefined, error |-> Undefined]
             ELSE KeywordFilterFrom(lowerText, fl, k + 1)

KeywordFilterContent(text, fl) == KeywordFilterFrom(ToLowerCase(text), fl, 1)

\* The texts keywordFilterContent is called with.
HeuristicTexts ==
    { "Congress passed a new voting bill today", "Lovely weather at the lake",
      "Crypto is rallying", "Governors met yesterday", "Bitcoin and the election" }

\* The rule lists this.filters holds when it is called.
HeuristicFilterLists ==
    { <<>>, << "political content" >>, << "political" >>, << "cryptocurrency" >>,
      << "crypto", "political content" >>, << "political content", "crypto" >>,
      << "crypto political sports" >>, << "Sports Betting Ads", "Crypto" >> }

(***************************************************************************)
(* processTweets                                                           *)
(***************************************************************************)
\* Faulty variant of ScanElements: the pushed element is not added to
\* processedTweets.
RECURSIVE ScanElementsNoMark(_, _, _, _, _, _)
ScanElementsNoMark(sel, u, doc, textual, seen, batch) ==
    IF u > MaxNodes THEN [seen |-> seen, batch |-> batch]
    ELSE IF u \notin doc \/ sel \notin SelectorsOf(u)
         THEN ScanElementsNoMark(sel, u + 1, doc, textual, seen, batch)
    ELSE IF u \in seen
         THEN ScanElementsNoMark(sel, u + 1, doc, textual, seen, batch)
    ELSE IF ExtractTweetText(u, textual) = ""
         THEN ScanElementsNoMark(sel, u + 1, doc, textual, seen, batch)
    ELSE ScanElementsNoMark(sel, u + 1, doc, textual, seen, Append(batch, u))

\* The inner loop, from the element u of the selector's node list on: an
\* element seen before or without text is skipped, any other is pushed to
\* batchEntries and added to processedTweets.
RECURSIVE ScanElements(_, _, _, _, _, _)
ScanElements(sel, u, doc, textual, seen, batch) ==
    IF u > MaxNodes THEN [seen |-> seen, batch |-> batch]
    ELSE IF u \notin doc \/ sel \notin SelectorsOf(u)
         THEN ScanElements(sel, u + 1, doc, textual, seen, batch)
    ELSE IF u \in seen
         THEN ScanElements(sel, u + 1, doc, textual, seen, batch)
    ELSE IF ExtractTweetText(u, textual) = ""
         THEN ScanElements(sel, u + 1, doc, textual, seen, batch)
    ELSE ScanElements(sel, u + 1, doc, textual, seen \cup {u}, Append(batch, u))

\* Faulty variant of ScanSelectors: the break is missing, every selector adds
\* to the batch.
RECURSIVE ScanAllSelectors(_, _, _, _, _)
ScanAllSelectors(sel, doc, textual, seen, batch) ==
    IF sel \notin TweetSelectors THEN [seen |-> seen, batch |-> batch]
    ELSE LET pass == ScanElements(sel, 1, doc, textual, seen, batch)
         IN  ScanAllSelectors(sel + 1, doc, textual, pass.seen, pass.batch)

ScanSelectorsNoBreak(sel, doc, textual, seen) ==
    ScanAllSelectors(sel, doc, textual, seen, <<>>)

\* The outer loop, from selector sel on: stops after the first selector that
\* collected something.
RECURSIVE ScanSelectors(_, _, _, _)
ScanSelectors(sel, doc, textual, seen) ==
    IF sel \notin TweetSelectors THEN [seen |-> seen, batch |-> <<>>]
    ELSE LET pass == ScanElements(sel, 1, doc, textual, seen, <<>>)
         IN  IF Len(pass.batch) > 0 THEN pass
             ELSE ScanSelectors(sel + 1, doc, textual, pass.seen)

\* processTweets() up to its await, with this.filters = fl: collects a batch
\* and sends it (batchFilterContent up to chrome.runtime.sendMessage).
ProcessTweets(fl) ==
    LET scan == ScanSelectors(1, present, hasText, processedTweets)
    IN  IF Len(fl) = 0 \/ Len(scan.batch) = 0
        THEN UNCHANGED <<processedTweets, requests>>
        ELSE /\ Len(requests) < MaxRounds
             /\ processedTweets' = scan.seen
             /\ requests' = Append(requests, Round(scan.batch, fl))

(***************************************************************************)
(* initializeFilter                                                        *)
(***************************************************************************)
\* Faulty variant of InitializeModel: the exception of a failed message is not
\* caught, and initializeFilter ends there.
InitializeModelRethrows(answer) ==
    /\ pc = "initializeModel"
    /\ aiAvailable' = (answer = "available")
    /\ pc' = IF answer = "failed" THEN "rejected" ELSE "loadFilters"
    /\ UNCHANGED <<storage, popup, timers, lastCall, filters, processedTweets, isProcessing, present, hasText,
                   filtered, revealed, overlays, requests>>

\* initializeModel(): the checkAPI answer is available, unavailable, or the
\* message fails.
InitializeModel(answer) ==
    /\ pc = "initializeModel"
    /\ aiAvailable' = (answer = "available")
    /\ pc' = "loadFilters"
    /\ UNCHANGED <<storage, popup, timers, lastCall, filters, processedTweets, isProcessing, present, hasText,
                   filtered, revealed, overlays, requests>>

\* loadFilters() (the storage answers stored, or fails and this.filters stays
\* as it is), then startObserving(), the first processTweets() and the
\* registration of the message listener.
LoadFilters(failed, stored) ==
    /\ pc = "loadFilters"
    /\ filters' = IF failed THEN filters ELSE stored
    /\ ProcessTweets(filters')
    /\ pc' = "running"
    /\ UNCHANGED <<storage, popup, timers, lastCall, aiAvailable, isProcessing, present, hasText, filtered,
                   revealed, overlays>>

(***************************************************************************)
(* The page changes; the MutationObserver of startObserving                *)
(***************************************************************************)
\* The observer, once started, reports a mutation of the page to its callback.
MutationObserved(observing) ==
    /\ isProcessing' = ObserverCallback(observing, isProcessing)
    /\ IF TimerArmed(observing, isProcessing)
       THEN timers < MaxTimers /\ timers' = timers + 1
       ELSE timers' = timers

\* The timeline appends the unit u, with its text or still empty.
AddUnit(u, withText) ==
    /\ u = Cardinality(present) + 1
    /\ present' = present \cup {u}
    /\ hasText' = IF withText THEN hasText \cup {u} ELSE hasText
    /\ MutationObserved(pc = "running")
    /\ UNCHANGED <<storage, popup, lastCall, pc, aiAvailable, filters, processedTweets, filtered, revealed,
                   overlays, requests>>

\* The timeline renders the text of a unit inserted empty.
RenderText(u) ==
    /\ u \in present \ hasText
    /\ hasText' = hasText \cup {u}
    /\ MutationObserved(pc = "running")
    /\ UNCHANGED <<storage, popup, lastCall, pc, aiAvailable, filters, processedTweets, present, filtered,
                   revealed, overlays, requests>>

\* The debounce timer fires: processTweets(), then isProcessing = false.
TimerFires ==
    /\ timers > 0
    /\ timers' = timers - 1
    /\ ProcessTweets(filters)
    /\ isProcessing' = FALSE
    /\ UNCHANGED <<storage, popup, lastCall, pc, aiAvailable, filters, present, hasText, filtered, revealed,
                   overlays>>

\* The updateFilters message of the popup.
UpdateFilters(fl) ==
    /\ pc = "running"
    /\ filters' = fl
    /\ ProcessTweets(fl)
    /\ UNCHANGED <<storage, popup, timers, lastCall, pc, aiAvailable, isProcessing, present, hasText, filtered,
                   revealed, overlays>>

(***************************************************************************)
(* batchFilterContent and the application of the results                   *)
(***************************************************************************)
DefaultResult(message) ==
    [shouldFilter |-> FALSE, confidence |-> "0%", method |-> "Batch Error",
     reason |-> "Batch processing failed", details |-> message, error |-> Undefined]

\* The catch of batchFilterContent: batchEntries.map(() => ({ ... }))
DefaultResults(n, message) == [i \in 1..n |-> DefaultResult(message)]

\* chrome.runtime.sendMessage rejects (the background script is gone).
SendMessageRejects(r) ==
    /\ r \in DOMAIN requests
    /\ requests[r].status = "sent"
    /\ requests' = [requests EXCEPT
           ![r].status = "responded",
           ![r].outcome = NoOutcome("sendMessage"),
           ![r].results = DefaultResults(Len(requests[r].batchEntries),
                                         "Could not establish connection")]
    /\ UNCHANGED contentVars

Overlay(res) ==
    [reason |-> res.reason, confidence |-> res.confidence, method |-> res.method,
     display |-> ""]

\* Faulty variant of ApplyFilter: the test of the class filtered-content is
\* missing.
ApplyFilterUnguarded(page, u, res) ==
    [filtered |-> page.filtered \cup {u},
     overlays |-> [page.overlays EXCEPT ![u] = Append(@, Overlay(res))]]

\* Faulty variant of ApplyFilter: the test is for an overlay that is still
\* displayed, not for the class filtered-content.
ApplyFilterUnlessDisplayed(page, u, res) ==
    IF \E k \in DOMAIN page.overlays[u] : page.overlays[u][k].display # "none"
    THEN page
    ELSE [filtered |-> page.filtered \cup {u},
          overlays |-> [page.overlays EXCEPT ![u] = Append(@, Overlay(res))]]

\* applyFilter(tweetElement, reason, confidence, method) on the page state
\* page = [filtered, overlays]
ApplyFilter(page, u, res) ==
    IF u \in page.filtered THEN page
    ELSE [filtered |-> page.filtered \cup {u},
          overlays |-> [page.overlays EXCEPT ![u] = Append(@, Overlay(res))]]

\* Faulty variant of ApplyResultsFrom: the element is taken from the end of
\* batchEntries.
RECURSIVE ApplyResultsFromEnd(_, _, _, _)
ApplyResultsFromEnd(idx, results, batchEntries, page) ==
    IF idx > Len(results) THEN page
    ELSE IF ~results[idx].shouldFilter
         THEN ApplyResultsFromEnd(idx + 1, results, batchEntries, page)
    ELSE IF idx > Len(batchEntries) THEN page
    ELSE ApplyResultsFromEnd(idx + 1, results, batchEntries,
                             ApplyFilter(page, batchEntries[Len(batchEntries) + 1 - idx],
                                         results[idx]))

\* results.forEach((res, idx) => ...) from idx on; batchEntries[idx][0] of an
\* index past the batch throws and ends the loop.
RECURSIVE ApplyResultsFrom(_, _, _, _)
ApplyResultsFrom(idx, results, batchEntries, page) ==
    IF idx > Len(results) THEN page
    ELSE IF ~results[idx].shouldFilter
         THEN ApplyResultsFrom(idx + 1, results, batchEntries, page)
    ELSE IF idx > Len(batchEntries) THEN page
    ELSE ApplyResultsFrom(idx + 1, results, batchEntries,
                          ApplyFilter(page, batchEntries[idx], results[idx]))

\* Faulty variant of BatchEntriesOf: the batch is kept in a field of the
\* instance, which the latest scan overwrote.
BatchEntriesShared(r) == requests[Len(requests)].batchEntries

\* const batchEntries of the call of processTweets that sent round r: a local
\* of that call, still in scope when its await returns.
BatchEntriesOf(r) == requests[r].batchEntries

\* The response of round r arrives: processTweets resumes after its await.
\* An appended overlay is a mutation of the page the observer reports.
ApplyResults(r) ==
    /\ r \in DOMAIN requests
    /\ requests[r].status = "responded"
    /\ LET page == ApplyResultsFrom(1, requests[r].results, BatchEntriesOf(r),
                                    [filtered |-> filtered, overlays |-> overlays])
       IN  /\ filtered' = page.filtered
           /\ overlays' = page.overlays
           /\ IF page.filtered # filtered
              THEN MutationObserved(TRUE)
              ELSE UNCHANGED <<isProcessing, timers>>
    /\ requests' = [requests EXCEPT
           ![r].status = "applied", ![r].outcome = NoOutcome("none"),
           ![r].results = <<>>]
    /\ UNCHANGED <<storage, popup, lastCall, pc, aiAvailable, filters, processedTweets, present, hasText, revealed>>

\* The (reason, confidence, method) arguments applyFilter is called with from
\* outside a round.
ApplyFilterArguments ==
    { [reason |-> "political content", confidence |-> "85%",
       method |-> "gemini-1.5-flash-latest Batch API"],
      [reason |-> "crypto", confidence |-> "100%", method |-> "Keywords"] }

\* applyFilter(tweetElement, reason, confidence, method) called on the unit u
\* of the page.  The appended overlay is a mutation the observer reports once
\* startObserving has run.
ApplyFilterCall(u, res) ==
    /\ u \in present
    /\ LET before == [filtered |-> filtered, overlays |-> overlays]
           page == ApplyFilter(before, u, res)
       IN  /\ filtered' = page.filtered
           /\ overlays' = page.overlays
           /\ IF page.filtered # filtered
              THEN MutationObserved(pc = "running")
              ELSE UNCHANGED <<isProcessing, timers>>
           /\ lastCall' = [fn |-> "applyFilter", unit |-> u, res |-> res,
                           before |-> before]
    /\ UNCHANGED <<storage, popup, pc, aiAvailable, filters, processedTweets, present, hasText,
                   revealed, requests>>

\* keywordFilterContent(text) called from outside, with the rules this.filters
\* holds.
KeywordFilterCall(text) ==
    /\ lastCall' = [fn |-> "keywordFilterContent", text |-> text, filters |-> filters,
                    result |-> KeywordFilterContent(text, filters)]
    /\ UNCHANGED <<storage, popup, timers, pc, aiAvailable, filters, processedTweets, isProcessing, present,
                   hasText, filtered, revealed, overlays, requests>>

\* The user clicks "Show Content" on the k-th overlay of the unit u.
ShowContentClick(u, k) ==
    /\ k \in DOMAIN overlays[u]
    /\ overlays[u][k].display # "none"
    /\ overlays' = [overlays EXCEPT ![u][k].display = "none"]
    /\ revealed' = revealed \cup {u}
    /\ UNCHANGED <<storage, popup, timers, lastCall, pc, aiAvailable, filters, processedTweets, isProcessing, present,
                   hasText, filtered, requests>>

(***************************************************************************)
(* The popup: saveFilter and clearAllFilters                               *)
(***************************************************************************)
\* What the user can have typed into filterInput.
FilterInputs == { "", "  ", "spam", " spam ", "crypto" }

RECURSIVE TrimStart(_)
TrimStart(s) ==
    IF Len(s) > 0 /\ SubSeq(s, 1, 1) = " " THEN TrimStart(SubSeq(s, 2, Len(s))) ELSE s

RECURSIVE TrimEnd(_)
TrimEnd(s) ==
    IF Len(s) > 0 /\ SubSeq(s, Len(s), Len(s)) = " "
    THEN TrimEnd(SubSeq(s, 1, Len(s) - 1))
    ELSE s

\* Faulty variant of Trim: the input is taken as typed.
TrimNothing(s) == s

\* String.prototype.trim on the inputs: the blanks of both ends are dropped.
Trim(s) == TrimEnd(TrimStart(s))

\* Array.prototype.includes on a list of strings.
ArrayIncludes(list, x) == \E i \in DOMAIN list : list[i] = x

\* A call of saveFilter or clearAllFilters: its position (at), the trimmed
\* input, its local array filters and the text showStatus displayed.
PopupCall(fn, filterText, at, status) ==
    [fn |-> fn, filterText |-> filterText, filters |-> <<>>, at |-> at,
     status |-> status]

\* The click on saveButton: saveFilter() up to its first await.
SaveFilterClick(input) ==
    /\ Len(popup) < MaxClicks
    /\ LET filterText == Trim(input)
       IN  popup' = Append(popup,
                IF filterText = ""
                THEN PopupCall("saveFilter", filterText, "done",
                               "Please enter a filter description")
                ELSE PopupCall("saveFilter", filterText, "get", ""))
    /\ UNCHANGED <<timers, storage, requests, lastCall, pc, aiAvailable, filters, processedTweets,
                   isProcessing, present, hasText, filtered, revealed, overlays>>

\* The click on clearButton: clearAllFilters() up to its first await, the
\* call of chrome.storage.sync.set.
ClearAllFiltersClick ==
    /\ Len(popup) < MaxClicks
    /\ popup' = Append(popup, PopupCall("clearAllFilters", "", "set", ""))
    /\ UNCHANGED <<timers, storage, requests, lastCall, pc, aiAvailable, filters, processedTweets,
                   isProcessing, present, hasText, filtered, revealed, overlays>>

\* chrome.storage.sync.get of the call k answers (or rejects): saveFilter()
\* up to its second await, the call of chrome.storage.sync.set.
StorageGetResolves(k, failed) ==
    /\ k \in DOMAIN popup
    /\ popup[k].at = "get"
    /\ LET call == popup[k]
       IN  popup' = [popup EXCEPT ![k] =
                IF failed
                THEN [call EXCEPT !.at = "done", !.status = "Error saving filter"]
                ELSE IF ~ArrayIncludes(storage, call.filterText)
                THEN [call EXCEPT !.filters = Append(storage, call.filterText),
                                  !.at = "set"]
                ELSE [call EXCEPT !.filters = storage, !.at = "done",
                                  !.status = "Filter already exists"]]
    /\ UNCHANGED <<timers, storage, requests, lastCall, pc, aiAvailable, filters, processedTweets,
                   isProcessing, present, hasText, filtered, revealed, overlays>>

\* chrome.storage.sync.set of the call k writes and answers (or rejects):
\* the handler up to its await of chrome.tabs.query.
StorageSetResolves(k, failed) ==
    /\ k \in DOMAIN popup
    /\ popup[k].at = "set"
    /\ storage' = IF failed THEN storage ELSE popup[k].filters
    /\ LET call == popup[k]
           saving == call.fn = "saveFilter"
       IN  popup' = [popup EXCEPT ![k] =
                IF failed
                THEN [call EXCEPT !.at = "done",
                                  !.status = IF saving THEN "Error saving filter"
                                             ELSE "Error clearing filters"]
                ELSE [call EXCEPT !.at = "query",
                                  !.status = IF saving THEN "Filter added successfully!"
                                             ELSE "All filters cleared"]]
    /\ UNCHANGED <<timers, requests, lastCall, pc, aiAvailable, filters, processedTweets,
                   isProcessing, present, hasText, filtered, revealed, overlays>>

\* chrome.tabs.query of the call k answers: the updateFilters message goes to
\* the active tab when it shows the timeline, and the listener of the content
\* script, once registered, takes the list and scans.
TabsQueryResolves(k, onTimeline) ==
    /\ k \in DOMAIN popup
    /\ popup[k].at = "query"
    /\ popup' = [popup EXCEPT ![k].at = "done"]
    /\ IF onTimeline /\ pc = "running"
       THEN /\ filters' = popup[k].filters
            /\ ProcessTweets(popup[k].filters)
       ELSE UNCHANGED <<filters, processedTweets, requests>>
    /\ UNCHANGED <<timers, storage, lastCall, pc, aiAvailable, isProcessing, present, hasText,
                   filtered, revealed, overlays>>

(***************************************************************************)
(* Specifications                                                          *)
(***************************************************************************)
\* No method was called from outside yet.
NoCall == [fn |-> "none"]

Init ==
    /\ pc = "initializeModel"
    /\ aiAvailable = FALSE
    /\ filters = <<>>
    /\ processedTweets = {}
    /\ isProcessing = FALSE
    /\ present = {}
    /\ hasText = {}
    /\ filtered = {}
    /\ revealed = {}
    /\ overlays = [u \in Nodes |-> <<>>]
    /\ requests = <<>>
    /\ lastCall = NoCall
    /\ storage = <<>>
    /\ popup = <<>>
    /\ timers = 0

\* The payload entry a classifier that echoes the index space writes for the
\* tweet i.
EchoEntry(i, verdict) ==
    [tweetIndex |-> <<i>>, shouldFilter |-> verdict, confidence |-> <<150>>,
     matchedFilter |-> (IF verdict THEN "spam" ELSE ""), reasoning |-> "x"]

\* The outcomes the rounds of the content script are followed through: the
\* failures, and the payloads that hold one entry per tweet, in the order of
\* the batch or reversed.  SpecGateway varies the payload further.
PipelineOutcomes(n) ==
    { Outcome("network", 0, <<>>), Outcome("http", 429, <<>>),
      Outcome("textInvalid", 200, <<>>) }
    \cup { Outcome("results", 200, [i \in 1..n |-> EchoEntry(i, v[i])]) :
             v \in [1..n -> BOOLEAN] }
    \cup { Outcome("results", 200, [i \in 1..n |-> EchoEntry(n + 1 - i, v[i])]) :
             v \in [1..n -> BOOLEAN] }

Next ==
    \/ \E answer \in {"available", "unavailable", "failed"} : InitializeModel(answer)
    \/ \E failed \in BOOLEAN, stored \in FilterLists : LoadFilters(failed, stored)
    \/ \E u \in Units, withText \in BOOLEAN : AddUnit(u, withText)
    \/ \E u \in Units : RenderText(u)
    \/ TimerFires
    \/ \E fl \in FilterLists : UpdateFilters(fl)
    \/ \E r \in 1..MaxRounds : SendMessageRejects(r)
    \/ \E r \in 1..MaxRounds : HandleFilterBatch(r)
    \/ \E r \in DOMAIN requests :
          \E o \in PipelineOutcomes(Len(requests[r].batchEntries)) : FetchCompletes(r, o)
    \/ \E r \in 1..MaxRounds : ApplyResults(r)
    \/ \E u \in Units, k \in 1..MaxRounds : ShowContentClick(u, k)

\* The content script of one page with the background script.
Spec == Init /\ [][Next]_vars

NextGateway ==
    \/ \E n \in 0..MaxBatch, fl \in MessageFilterLists : FilterBatchMessage(n, fl)
    \/ \E r \in 1..MaxRounds : HandleFilterBatch(r)
    \/ \E r \in DOMAIN requests :
          /\ requests[r].status = "fetching"
          /\ \E o \in Outcomes : FetchCompletes(r, o)

\* The background script alone, serving one filterBatch message.
SpecGateway == Init /\ [][NextGateway]_vars

NextApply ==
    \/ \E u \in Units, withText \in BOOLEAN : AddUnit(u, withText)
    \/ \E u \in Units : RenderText(u)
    \/ \E u \in Units, res \in ApplyFilterArguments : ApplyFilterCall(u, res)
    \/ \E u \in Units, k \in 1..MaxRounds : ShowContentClick(u, k)

\* applyFilter and the reveal click on the units of a page, whoever calls
\* applyFilter and however often.
SpecApply == Init /\ [][NextApply]_vars

NextStatus ==
    \/ \E apiKey \in ApiKeys : CheckAPIMessage(apiKey)
    \/ \E r \in 1..MaxRounds : HandleCheckAPI(r)
    \/ \E r \in 1..MaxRounds, o \in ProbeOutcomes : ProbeCompletes(r, o)

\* The background script serving checkAPI messages.
SpecStatus == Init /\ [][NextStatus]_vars

NextLegacy ==
    \/ \E u \in Units, fl \in MessageFilterLists : FilterContentMessage(TextOf(u), fl)
    \/ \E r \in 1..MaxRounds : HandleFilterContent(r)
    \/ \E r \in DOMAIN requests :
          /\ requests[r].status = "fetching"
          /\ \E o \in ContentOutcomes : ContentFetchCompletes(r, o)

\* The background script alone, serving one filterContent message.
SpecLegacy == Init /\ [][NextLegacy]_vars

NextHeuristic ==
    \/ \E answer \in {"available", "unavailable", "failed"} : InitializeModel(answer)
    \/ \E failed \in BOOLEAN, stored \in HeuristicFilterLists : LoadFilters(failed, stored)
    \/ \E fl \in HeuristicFilterLists : UpdateFilters(fl)
    \/ \E text \in HeuristicTexts : KeywordFilterCall(text)

\* The keyword heuristic called on an instance whose rules are loaded and
\* updated.
SpecHeuristic == Init /\ [][NextHeuristic]_vars

NextPopup ==
    \/ \E answer \in {"available", "unavailable", "failed"} : InitializeModel(answer)
    \/ \E failed \in BOOLEAN : LoadFilters(failed, storage)
    \/ \E input \in FilterInputs : SaveFilterClick(input)
    \/ ClearAllFiltersClick
    \/ \E k \in 1..MaxClicks, failed \in BOOLEAN : StorageGetResolves(k, failed)
    \/ \E k \in 1..MaxClicks, failed \in BOOLEAN : StorageSetResolves(k, failed)
    \/ \E k \in 1..MaxClicks, onTimeline \in BOOLEAN : TabsQueryResolves(k, onTimeline)

\* The popup saving and clearing rules beside the content script of the
\* active tab; the awaits of concurrent handlers interleave.
SpecPopup == Init /\ [][NextPopup]_vars

\* The outcomes the rounds of the page are followed through: a failure, and
\* the payloads that hide none or all of the batch.
PageOutcomes(n) ==
    { Outcome("network", 0, <<>>) }
    \cup { Outcome("results", 200, [i \in 1..n |-> EchoEntry(i, verdict)]) :
             verdict \in BOOLEAN }

NextPage ==
    \/ \E answer \in {"available"} : InitializeModel(answer)
    \/ \E stored \in FilterLists : LoadFilters(FALSE, stored)
    \/ \E u \in Nodes, withText \in BOOLEAN : AddUnit(u, withText)
    \/ \E u \in Nodes : RenderText(u)
    \/ TimerFires
    \/ \E r \in 1..MaxRounds : HandleFilterBatch(r)
    \/ \E r \in DOMAIN requests :
          \E o \in PageOutcomes(Len(requests[r].batchEntries)) : FetchCompletes(r, o)
    \/ \E r \in 1..MaxRounds : ApplyResults(r)

\* The content script on a page that holds nodes of every selector, with the
\* background script; the rules stay as loaded.
SpecPage == Init /\ [][NextPage]_vars

\* Timers fire, the background script handles the messages it is sent, the
\* classifier calls complete and the responses are applied; the page is free
\* to stay as it is.
PageFairness ==
    /\ WF_vars(TimerFires)
    /\ \A r \in 1..MaxRounds :
          /\ WF_vars(HandleFilterBatch(r))
          /\ WF_vars(/\ r \in DOMAIN requests
                     /\ \E o \in PageOutcomes(Len(requests[r].batchEntries)) :
                           FetchCompletes(r, o))
          /\ WF_vars(ApplyResults(r))

SpecPageFair == SpecPage /\ PageFairness

(***************************************************************************)
(* Properties                                                              *)
(***************************************************************************)
BatchSize(r) == Len(requests[r].batchEntries)

Responded(r) == requests[r].status = "responded"

\* The payload of the reply of round r.
Payload(r) == requests[r].outcome.results

\* The round r was answered with results built from a payload that parsed.
Aligned(r) ==
    /\ Responded(r)
    /\ requests[r].outcome.kind \in {"results", "noResults"}
    /\ \A i \in DOMAIN requests[r].results :
           requests[r].results[i].method = MODEL_NAME \o " Batch API"

\* The payload entries that declare the tweet index i.
Declaring(payload, i) ==
    { k \in DOMAIN payload : ~IsNull(payload[k]) /\ payload[k].tweetIndex = <<i>> }

First(S) == CHOOSE k \in S : \A j \in S : k <= j

\* The percentages inside [1,100].
Percentages == { ToString(k) \o "%" : k \in 1..100 }

\* The classifier call of round r failed: a network exception or a non-2xx status.
TransportFailed(r) ==
    /\ Responded(r)
    /\ requests[r].outcome.kind \in {"network", "http"}

\* C1: whatever the classifier call ends in, the response to a filterBatch
\* message of n tweets is a list of exactly n results, one per tweet.
C1_OneResultPerUnit ==
    \A r \in DOMAIN requests :
        Responded(r) => DOMAIN requests[r].results = 1..BatchSize(r)

\* A batch of two tweets answered by a payload of one entry, which declares
\* the second tweet.
C1_Witness ==
    \E r \in DOMAIN requests :
        /\ Responded(r)
        /\ BatchSize(r) = 2
        /\ requests[r].outcome.kind = "results"
        /\ Len(Payload(r)) = 1
        /\ Declaring(Payload(r), 2) = {1}
        /\ Len(requests[r].results) = 2

\* C2: a filterBatch message without rules issues no classifier call, and
\* every tweet of it gets a result with method "No Filters Active" and
\* shouldFilter = false.
C2_NoRulesNoCall ==
    \A r \in DOMAIN requests :
        Len(requests[r].filters) = 0 =>
            /\ requests[r].fetchCalls = 0
            /\ requests[r].status # "fetching"
            /\ Responded(r) =>
                  /\ DOMAIN requests[r].results = 1..BatchSize(r)
                  /\ \A i \in DOMAIN requests[r].results :
                        /\ requests[r].results[i].method = "No Filters Active"
                        /\ ~requests[r].results[i].shouldFilter

\* A message of two tweets and no rules was answered.
C2_Witness ==
    \E r \in DOMAIN requests :
        /\ Responded(r)
        /\ Len(requests[r].filters) = 0
        /\ BatchSize(r) = 2
        /\ Len(requests[r].results) = 2

C3_Results ==
    \A r \in DOMAIN requests :
        TransportFailed(r) =>
            /\ DOMAIN requests[r].results = 1..BatchSize(r)
            /\ \A i \in DOMAIN requests[r].results :
                  /\ ~requests[r].results[i].shouldFilter
                  /\ requests[r].results[i].method = "Batch Error"

C3_Applied ==
    \A r \in DOMAIN requests :
        (TransportFailed(r) /\ requests'[r].status = "applied") =>
            \A i \in 1..BatchSize(r) : requests[r].batchEntries[i] \notin filtered'

\* C3: when the classifier call of a batch fails with a non-2xx status or a
\* network exception, the content script receives one result per unit of the
\* batch, each with shouldFilter = false and method "Batch Error", and no unit
\* of the batch is filtered when the results are applied.
C3_BatchError == []C3_Results /\ [][C3_Applied]_vars

\* A batch of two units whose classifier call ended in HTTP 429.
C3_Witness ==
    \E r \in DOMAIN requests :
        /\ TransportFailed(r)
        /\ requests[r].outcome.status = 429
        /\ BatchSize(r) = 2
        /\ requests[r].batchEntries[1] \in processedTweets

C4_Results ==
    \A r \in DOMAIN requests :
        (Responded(r) /\ requests[r].outcome.kind = "textInvalid") =>
            /\ DOMAIN requests[r].results = 1..BatchSize(r)
            /\ \A i \in DOMAIN requests[r].results :
                  /\ ~requests[r].results[i].shouldFilter
                  /\ Includes(requests[r].results[i].method, "Parse Error")

C4_Applied ==
    \A r \in DOMAIN requests :
        (/\ Responded(r)
         /\ requests[r].outcome.kind = "textInvalid"
         /\ requests'[r].status = "applied") =>
            \A i \in 1..BatchSize(r) : requests[r].batchEntries[i] \notin filtered'

\* C4: when the payload text is not valid JSON, the batch gets one result per
\* unit, each with shouldFilter = false and a method containing "Parse Error",
\* and no unit of the batch is filtered when the results are applied.
C4_ParseError == []C4_Results /\ [][C4_Applied]_vars

\* A batch of two units whose payload text was not JSON.
C4_Witness ==
    \E r \in DOMAIN requests :
        /\ Responded(r)
        /\ requests[r].outcome.kind = "textInvalid"
        /\ BatchSize(r) = 2
        /\ requests[r].results[1].method = "gemini-1.5-flash-latest Batch API - Parse Error"

\* C5: the confidence of every aligned result is a percentage inside [1,100],
\* whatever number the classifier returned (0, negative, above 100); a
\* returned confidence of 150 yields "100%".
C5_ConfidenceClamped ==
    \A r \in DOMAIN requests :
        Aligned(r) =>
            /\ \A i \in DOMAIN requests[r].results :
                  requests[r].results[i].confidence \in Percentages
            /\ (/\ BatchSize(r) >= 1
                /\ Len(Payload(r)) = 1
                /\ ~IsNull(Payload(r)[1])
                /\ Payload(r)[1].confidence = << 150 >>)
               => requests[r].results[1].confidence = "100%"

\* The only entry of a payload carries the confidence 150.
C5_Witness ==
    \E r \in DOMAIN requests :
        /\ Aligned(r)
        /\ BatchSize(r) = 1
        /\ Len(Payload(r)) = 1
        /\ ~IsNull(Payload(r)[1])
        /\ Payload(r)[1].confidence = << 150 >>
        /\ requests[r].results[1].confidence = "100%"

\* C6: on a gateway failure every unit of the batch gets the verdict of the
\* keyword heuristic against the rules of the batch.
C6_HeuristicSubstituted ==
    \A r \in DOMAIN requests :
        TransportFailed(r) =>
            \A i \in 1..BatchSize(r) :
                /\ i \in DOMAIN requests[r].results
                /\ requests[r].results[i].shouldFilter =
                     KeywordFilterContent(TextOf(requests[r].batchEntries[i]),
                                          requests[r].filters).shouldFilter

\* C7: in a batch whose payload parsed, the result of the position i is built
\* from the first payload entry that declares the tweet index i when there is
\* one, and from the entry at the list position i only when there is none.
C7_DeclaredIndexFirst ==
    \A r \in DOMAIN requests :
        Aligned(r) =>
            \A i \in 1..BatchSize(r) :
                LET declaring == Declaring(Payload(r), i)
                IN  IF declaring # {}
                    THEN requests[r].results[i] =
                            ProcessedResult(Payload(r)[First(declaring)])
                    ELSE i <= Len(Payload(r)) =>
                            requests[r].results[i] = ProcessedResult(Payload(r)[i])

\* A payload that lists the two tweets of a batch in reverse order, with
\* different verdicts.
C7_Witness ==
    \E r \in DOMAIN requests :
        /\ Aligned(r)
        /\ BatchSize(r) = 2
        /\ Len(Payload(r)) = 2
        /\ Declaring(Payload(r), 1) = {2}
        /\ Declaring(Payload(r), 2) = {1}
        /\ Payload(r)[1].shouldFilter
        /\ ~Payload(r)[2].shouldFilter
        /\ ~requests[r].results[1].shouldFilter
        /\ requests[r].results[2].shouldFilter

\* The position i of round r has neither an entry declaring i nor an entry at
\* the list position i.
Uncovered(r, i) == Declaring(Payload(r), i) = {} /\ i > Len(Payload(r))

\* C8, as amended: the result of an uncovered position is built from the
\* synthetic default: shouldFilter = false, confidence "50%", reason "No
\* filter matched", details "No result returned".
C8_SyntheticDefault ==
    \A r \in DOMAIN requests :
        Aligned(r) =>
            \A i \in 1..BatchSize(r) :
                Uncovered(r, i) =>
                    requests[r].results[i] =
                        [shouldFilter |-> FALSE, confidence |-> "50%",
                         method |-> "gemini-1.5-flash-latest Batch API",
                         reason |-> "No filter matched",
                         details |-> "No result returned", error |-> Undefined]

\* C8, as claimed: the result of an uncovered position has shouldFilter =
\* false, confidence 0 and reason "No result returned".
C8_AsClaimed ==
    \A r \in DOMAIN requests :
        Aligned(r) =>
            \A i \in 1..BatchSize(r) :
                Uncovered(r, i) =>
                    /\ ~requests[r].results[i].shouldFilter
                    /\ requests[r].results[i].confidence \in {"0", "0%"}
                    /\ requests[r].results[i].reason = "No result returned"

\* A batch of two tweets whose payload holds one entry, for the first.
C8_Witness ==
    \E r \in DOMAIN requests :
        /\ Aligned(r)
        /\ BatchSize(r) = 2
        /\ Len(Payload(r)) = 1
        /\ Declaring(Payload(r), 1) = {1}
        /\ Uncovered(r, 2)
        /\ requests[r].results[2].details = "No result returned"

\* C9: a reply with a success status never ends in "Batch Error" results.
C9_ShapeFailureStaysLocal ==
    \A r \in DOMAIN requests :
        (Responded(r) /\ requests[r].outcome.status = 200) =>
            \A i \in DOMAIN requests[r].results :
                requests[r].results[i].method # "Batch Error"

\* C10: no unit is in two batches or twice in one, and every unit of a batch
\* is in the seen-set, whatever became of the batch and of the rules.
C10_SubmittedOnce ==
    \A r1, r2 \in DOMAIN requests :
        \A i \in 1..BatchSize(r1), j \in 1..BatchSize(r2) :
            /\ requests[r1].batchEntries[i] \in processedTweets
            /\ requests[r1].batchEntries[i] = requests[r2].batchEntries[j]
                  => (r1 = r2 /\ i = j)

\* The first round failed, a second round was submitted, and the rules were
\* cleared after it.
C10_Witness ==
    /\ Len(requests) = 2
    /\ TransportFailed(1)
    /\ requests[2].status = "sent"
    /\ filters # requests[2].filters
    /\ present = processedTweets

\* The scan of a round always visits the units of the first selector.
FirstSelectorUnits == { u \in present : 1 \in SelectorsOf(u) }

\* C11: a unit a scan considers while its extracted text is empty is in the
\* seen-set after the scan.
C11_SeenWhetherOrNotText ==
    [][(isProcessing /\ ~isProcessing' /\ Len(filters) > 0) =>
          \A u \in FirstSelectorUnits : u \notin hasText => u \in processedTweets']_vars

\* The rounds whose classifier call is pending or whose results are not applied yet.
InFlight == { r \in DOMAIN requests : requests[r].status \in {"sent", "fetching", "responded"} }

\* C12: at most one scan-to-classify round is in flight at any time.
C12_OneRoundInFlight == Cardinality(InFlight) <= 1

C13_States ==
    /\ revealed \subseteq filtered
    /\ filtered \subseteq processedTweets
    /\ \A u \in Units : Len(overlays[u]) = IF u \in filtered THEN 1 ELSE 0

C13_Becomes ==
    \A u \in filtered' \ filtered :
        \E r \in DOMAIN requests :
            /\ Responded(r)
            /\ requests'[r].status = "applied"
            /\ \E i \in 1..BatchSize(r) :
                  /\ requests[r].batchEntries[i] = u
                  /\ i \in DOMAIN requests[r].results
                  /\ requests[r].results[i].shouldFilter

\* C13: a revealed unit is filtered and a filtered unit is seen, with one
\* overlay; a unit becomes filtered only in the step that applies the results
\* of its batch, and only when the result at its own position has
\* shouldFilter = true.
C13_NestedStates == []C13_States /\ [][C13_Becomes]_vars

\* One unit was filtered and revealed, and the other unit of the same batch
\* is seen and not filtered.
C13_Witness ==
    /\ revealed # {}
    /\ processedTweets \ filtered # {}
    /\ \E r \in DOMAIN requests :
          /\ BatchSize(r) = 2
          /\ requests[r].status = "applied"
          /\ requests[r].batchEntries[1] \in processedTweets \ filtered
          /\ requests[r].batchEntries[2] \in revealed

\* The two overlays show the same reason, confidence and method.
SameOverlay(a, b) ==
    /\ a.reason = b.reason
    /\ a.confidence = b.confidence
    /\ a.method = b.method

\* C14: after applyFilter was called on a unit, the unit is filtered and
\* carries exactly one overlay; a call on a unit that was filtered already,
\* with the same or other arguments, left the filtered units and every
\* overlay as they were, so the overlay is that of the first application.
C14_ApplyIdempotent ==
    lastCall.fn = "applyFilter" =>
        LET u == lastCall.unit
            before == lastCall.before
        IN  /\ u \in filtered
            /\ Len(overlays[u]) = 1
            /\ IF u \in before.filtered
               THEN /\ filtered = before.filtered
                    /\ \A v \in Units :
                          /\ Len(overlays[v]) = Len(before.overlays[v])
                          /\ \A k \in DOMAIN overlays[v] :
                                SameOverlay(overlays[v][k], before.overlays[v][k])
               ELSE SameOverlay(overlays[u][1], lastCall.res)

\* applyFilter was called on a filtered unit with a reason other than that of
\* its overlay.
C14_Witness ==
    /\ lastCall.fn = "applyFilter"
    /\ lastCall.unit \in lastCall.before.filtered
    /\ lastCall.res.reason # lastCall.before.overlays[lastCall.unit][1].reason
    /\ overlays[lastCall.unit][1].reason # lastCall.res.reason

\* An overlay of the unit is displayed over it.
Hidden(u) == \E k \in DOMAIN overlays[u] : overlays[u][k].display # "none"

C15_OneWay ==
    \A u \in revealed : u \in revealed' /\ ~Hidden(u)'

C15_OnlyByClick ==
    \A u \in revealed' \ revealed :
        /\ Hidden(u) /\ ~Hidden(u)'
        /\ filtered' = filtered
        /\ \A v \in Units \ {u} : overlays'[v] = overlays[v]

\* C15: a unit becomes revealed only in a step that hides the displayed
\* overlay of that unit and changes nothing on another unit; a revealed unit
\* stays revealed and no overlay is displayed over it again, whatever is
\* applied afterwards.
C15_RevealOneWay == [][C15_OneWay /\ C15_OnlyByClick]_vars

\* applyFilter was called on a unit after the user revealed it, and the unit
\* is still revealed.
C15_Witness ==
    /\ lastCall.fn = "applyFilter"
    /\ lastCall.unit \in revealed
    /\ lastCall.unit \in lastCall.before.filtered
    /\ lastCall.before.overlays[lastCall.unit][1].display = "none"
    /\ ~Hidden(lastCall.unit)

\* C16: checkAPIStatus never throws.  Without a key no probe call is issued
\* and the answer is available = false with a "not configured" error.  With a
\* key one probe call is issued, and the answer is available = true with the
\* model name exactly when the probe got a success status, and available =
\* false with an error message otherwise.
C16_AvailabilityCheck ==
    \A r \in DOMAIN requests :
        /\ ~requests[r].threw
        /\ IF ~KeyConfigured(requests[r].apiKey)
           THEN /\ requests[r].fetchCalls = 0
                /\ requests[r].status # "probing"
                /\ requests[r].status = "responded" =>
                      /\ ~requests[r].result.available
                      /\ Includes(requests[r].result.error, "not configured")
           ELSE /\ requests[r].fetchCalls = (IF requests[r].status = "sent" THEN 0 ELSE 1)
                /\ requests[r].status = "responded" =>
                      /\ requests[r].result.available <=>
                            (requests[r].outcome.kind = "response"
                             /\ requests[r].outcome.status \in 200..299)
                      /\ requests[r].result.available =>
                            requests[r].result.model = "gemini-1.5-flash-latest"
                      /\ ~requests[r].result.available =>
                            /\ requests[r].result.error # Undefined
                            /\ Len(requests[r].result.error) > 0

\* Two answers side by side: that of a build without a key, and that of a
\* build with a key whose probe was answered with HTTP 429.
C16_Witness ==
    /\ \E r \in DOMAIN requests :
          /\ requests[r].status = "responded"
          /\ requests[r].apiKey = ""
          /\ requests[r].fetchCalls = 0
          /\ ~requests[r].result.available
    /\ \E r \in DOMAIN requests :
          /\ requests[r].status = "responded"
          /\ KeyConfigured(requests[r].apiKey)
          /\ requests[r].outcome.status = 429
          /\ requests[r].fetchCalls = 1
          /\ ~requests[r].result.available
          /\ Includes(requests[r].result.error, "API not accessible")

\* The outcome of a filterBatch call that corresponds to the outcome o of a
\* filterContent call: the same failure, or the payload holding the object
\* as its only entry.
AsBatchOutcome(o) ==
    IF o.kind = "object" THEN Outcome("results", 200, o.results) ELSE o

\* The one result a filterBatch message of one tweet gets with the rules fl
\* and the classifier outcome o.
BatchOfOne(fl, o) ==
    IF NoFiltersActive(fl) THEN NoFiltersResult
    ELSE IF OuterTryThrows(o) THEN ErrorResults(1, ErrorMessage(o))[1]
    ELSE AlignedResults(1, o)[1]

\* The kind of failure a method tag reports.
FailureTag(method) ==
    IF Includes(method, "Parse Error") THEN "parse"
    ELSE IF Includes(method, "Error") THEN "failure"
    ELSE IF method = "No Filters Active" THEN "noFilters"
    ELSE "none"

\* C17: the answer to filterContent equals the one result of a filterBatch
\* of size 1 with the same rules and classifier outcome in shouldFilter, in
\* the normalized confidence and in the failure tag, and without rules no
\* classifier call is issued.
C17_LegacyAsBatchOfOne ==
    \A r \in DOMAIN requests :
        /\ Len(requests[r].filters) = 0 => requests[r].fetchCalls = 0
        /\ requests[r].status = "responded" =>
              LET single == requests[r].result
                  batch == BatchOfOne(requests[r].filters,
                                      AsBatchOutcome(requests[r].outcome))
              IN  /\ single.shouldFilter = batch.shouldFilter
                  /\ single.confidence = batch.confidence
                  /\ FailureTag(single.method) = FailureTag(batch.method)

\* The words of the rule, as keywordFilterContent splits it.
RuleWords(rule) == Split(ToLowerCase(rule))

\* The rules of the call of which at least ceil(wordCount / 2) words match
\* the text.
RulesReached(call) ==
    { k \in DOMAIN call.filters :
        MatchCount(ToLowerCase(call.text), RuleWords(call.filters[k]))
          >= (Len(RuleWords(call.filters[k])) + 1) \div 2 }

\* The percentage p is the fraction m / n rounded to the nearest integer.
NearestPercent(p, m, n) ==
    /\ 2 * n * p - 200 * m <= n
    /\ 200 * m - 2 * n * p <= n

TopicsOf(word) == { k \in DOMAIN Synonyms : Synonyms[k][1] = word }

\* The word is a key of the topic table and the text contains a synonym
\* listed for it.
SynonymInText(lowerText, word) ==
    \E k \in TopicsOf(word) :
        \E j \in DOMAIN Synonyms[k][2] : Includes(lowerText, Synonyms[k][2][j])

\* C19: a rule word that is a key of the topic table matches every text that
\* contains a synonym listed for it, so a rule of which half of the words
\* match that way is answered with shouldFilter = true; "Congress passed a
\* new voting bill today" against "political content" is.
C19_SynonymExpansion ==
    lastCall.fn = "keywordFilterContent" =>
        /\ (\E k \in DOMAIN lastCall.filters :
              LET words == RuleWords(lastCall.filters[k])
              IN  2 * Cardinality({ i \in DOMAIN words :
                        SynonymInText(ToLowerCase(lastCall.text), words[i]) })
                    >= Len(words))
           => lastCall.result.shouldFilter
        /\ (/\ lastCall.text = "Congress passed a new voting bill today"
            /\ lastCall.filters = << "political content" >>)
           => lastCall.result.shouldFilter

\* The word contains one of the four topics of partialMatches and the text
\* has a word that starts with one of its stems.
StemInText(text, word) ==
    \E p \in DOMAIN PartialMatches :
        /\ Includes(word, PartialMatches[p][1])
        /\ \E j \in DOMAIN PartialMatches[p][2] : StemMatch(text, PartialMatches[p][2][j])

\* C20: a rule word that contains one of the four topics matches every text
\* that has a word with one of the stems of the topic, so a rule of which
\* half of the words match that way is answered with shouldFilter = true.
C20_StemFallback ==
    (/\ lastCall.fn = "keywordFilterContent"
     /\ \E k \in DOMAIN lastCall.filters :
            LET words == RuleWords(lastCall.filters[k])
            IN  2 * Cardinality({ i \in DOMAIN words :
                      StemInText(ToLowerCase(lastCall.text), words[i]) })
                  >= Len(words))
    => lastCall.result.shouldFilter

\* No string occurs twice in the list.
NoDuplicate(list) == \A i, j \in DOMAIN list : list[i] = list[j] => i = j

\* The string is empty or made of blanks only.
OnlyBlanks(str) == \A i \in 1..Len(str) : SubSeq(str, i, i) = " "

\* The list without its last element.
Front(list) == SubSeq(list, 1, Len(list) - 1)

\* The call k of the popup wrote storage in this step.
Wrote(k) ==
    /\ k \in DOMAIN popup
    /\ popup[k].at = "set"
    /\ popup'[k].at = "query"

C21_Stored ==
    /\ NoDuplicate(storage)
    /\ \A i \in DOMAIN storage : ~OnlyBlanks(storage[i])

C21_Steps ==
    /\ storage' # storage =>
          \E k \in DOMAIN popup :
              /\ Wrote(k)
              /\ popup[k].fn = "clearAllFilters" => storage' = <<>>
              /\ (popup[k].fn = "saveFilter" /\ Front(popup[k].filters) = storage) =>
                    /\ storage' = Append(storage, popup[k].filterText)
                    /\ ~ArrayIncludes(storage, popup[k].filterText)
    /\ \A k \in DOMAIN popup' :
          (/\ k \in DOMAIN popup => popup[k].status # popup'[k].status
           /\ popup'[k].status \in {"Filter already exists",
                                    "Please enter a filter description"})
              => storage' = storage

\* C21: the stored rule list never holds a duplicate nor an empty or
\* blank-only rule; storage changes only when a save or a clear writes it: a
\* clear empties it, and a save whose read is still current appends its
\* trimmed rule, which was not stored, after the rules stored before it (the
\* order in which the rules were added); a save of a stored rule or of an
\* empty input leaves storage as it is.
C21_StoredRules == []C21_Stored /\ [][C21_Steps]_vars

\* Two rules were saved one after the other and are stored in that order.
C21_Witness ==
    /\ storage = <<"spam", "crypto">>
    /\ Len(popup) = MaxClicks
    /\ \A k \in DOMAIN popup : popup[k].at = "done"
    /\ \E k \in DOMAIN popup : popup[k].filters = storage

\* The call k of saveFilter reported success.
Added(k) ==
    /\ popup[k].fn = "saveFilter"
    /\ popup[k].status = "Filter added successfully!"

\* C28: when two saves with different rules both reported success, and
\* nothing but saves ran, both rules are stored, however the reads and writes
\* of the two calls interleaved.
C28_NoLostUpdate ==
    \A j, k \in DOMAIN popup :
        (/\ Added(j)
         /\ Added(k)
         /\ popup[j].filterText # popup[k].filterText
         /\ \A c \in DOMAIN popup : popup[c].fn = "saveFilter")
            => /\ ArrayIncludes(storage, popup[j].filterText)
               /\ ArrayIncludes(storage, popup[k].filterText)

\* The payload entry the position i of round r got its result from, 0 when
\* it got the synthetic default.
EntryUsed(r, i) == ApiResultPosition(Payload(r), i)

\* C26: in a batch whose payload parsed, an entry that declares a tweet index
\* is used for the position it declares only, and no entry is used for two
\* positions of the batch.
C26_EntryUsedOnceAsDeclared ==
    \A r \in DOMAIN requests :
        Aligned(r) =>
            \A i \in 1..BatchSize(r) :
                LET k == EntryUsed(r, i)
                IN  k > 0 =>
                       /\ requests[r].results[i] = ProcessedResult(Payload(r)[k])
                       /\ Payload(r)[k].tweetIndex \in {<<>>, <<i>>}
                       /\ \A j \in 1..BatchSize(r) : EntryUsed(r, j) = k => j = i

\* The step changes the child lists of the page: a unit or its text is
\* inserted, or an overlay is appended.
Mutated == present' # present \/ hasText' # hasText \/ filtered' # filtered

\* Units a scan would collect: on the page, with text, never seen.
Unseen == (present \cap hasText) \ processedTweets

C23_States ==
    /\ timers <= 1
    /\ isProcessing <=> timers = 1

C23_Steps ==
    /\ (Mutated /\ pc = "running" /\ timers = 0) => timers' = 1
    /\ (Mutated /\ timers = 1) =>
          /\ timers' = 1
          /\ processedTweets' = processedTweets
          /\ Len(requests') = Len(requests)
    /\ timers' < timers =>
          /\ timers' = 0
          /\ (Len(filters) > 0 /\ Unseen # {}) =>
                /\ Len(requests') = Len(requests) + 1
                /\ Unseen \cap processedTweets' # {}

\* C23: at most one debounce timer is pending; a mutation reported while
\* none is pending arms one, a mutation reported while one is pending arms
\* none and starts no scan, and the step in which the timer fires runs the
\* one scan: it submits a round when there is something to collect.
C23_Debounced == []C23_States /\ [][C23_Steps]_vars

\* Two units arrived since the last scan and one timer is pending for both.
C23_Witness ==
    /\ pc = "running"
    /\ Len(filters) > 0
    /\ timers = 1
    /\ Cardinality(Unseen) = 2
    /\ requests = <<>>

\* The round r is applied in this step.
Applying(r) == Responded(r) /\ requests'[r].status = "applied"

\* The units of the batch of round r.
BatchUnits(r) == { requests[r].batchEntries[k] : k \in 1..BatchSize(r) }

\* C24: the step that applies the response of a round hides the k-th unit of
\* that round's batch, under an overlay made of the k-th result, exactly when
\* the k-th result has shouldFilter = true, and leaves every unit outside
\* that batch as it was, in whatever order the rounds complete.
C24_ResultToItsUnit ==
    [][\A r \in DOMAIN requests :
          Applying(r) =>
              /\ \A k \in 1..BatchSize(r) :
                    LET u == requests[r].batchEntries[k]
                    IN  IF k \in DOMAIN requests[r].results
                           /\ requests[r].results[k].shouldFilter
                        THEN /\ u \in filtered'
                             /\ overlays'[u] = <<Overlay(requests[r].results[k])>>
                        ELSE /\ u \notin filtered'
                             /\ overlays'[u] = <<>>
              /\ \A u \in DOMAIN overlays :
                    u \notin BatchUnits(r) =>
                        /\ u \in filtered' <=> u \in filtered
                        /\ overlays'[u] = overlays[u]]_vars

\* The second round was applied and hid its unit while the first round,
\* whose result also asks to hide, is still waiting to be applied.
C24_Witness ==
    /\ Len(requests) = 2
    /\ requests[2].status = "applied"
    /\ BatchUnits(2) \subseteq filtered
    /\ Responded(1)
    /\ requests[1].results[1].shouldFilter
    /\ BatchUnits(1) \cap filtered = {}

\* The step runs processTweets: the initial scan, a timer firing, or new rules.
ScanStep ==
    \/ pc = "loadFilters" /\ pc' = "running"
    \/ timers' < timers
    \/ pc = "running" /\ filters' # filters

C25_Steps ==
    /\ (pc = "initializeModel" /\ pc' # pc) => pc' = "loadFilters"
    /\ (pc = "loadFilters" /\ pc' # pc) => pc' = "running"
    /\ aiAvailable' # aiAvailable => pc = "initializeModel"
    /\ ScanStep =>
          LET scan == ScanSelectors(1, present, hasText, processedTweets)
          IN  IF Len(filters') > 0 /\ Len(scan.batch) > 0
              THEN /\ requests' = Append(requests, Round(scan.batch, filters'))
                   /\ processedTweets' = scan.seen
              ELSE /\ requests' = requests
                   /\ processedTweets' = processedTweets

\* C25: whatever the availability check answered, initializeFilter goes on
\* to load the rules and from there to observe and to run the initial scan;
\* every scan submits the batch the page and the rules determine, and the
\* availability flag, which only the check sets, has no part in it.
C25_AvailabilityDoesNotBlock == [][C25_Steps]_vars

\* The classifier was not available at startup; the rules were loaded, the
\* initial scan submitted a round, and a later scan submitted another.
C25_Witness ==
    /\ ~aiAvailable
    /\ pc = "running"
    /\ Len(requests) = 2
    /\ requests[1].filters # <<>>

\* The never-seen nodes with text the selector sel reaches.
Candidates(sel) == { u \in Unseen : sel \in SelectorsOf(u) }

\* The selectors that reach a never-seen node with text.
Yielding == { sel \in TweetSelectors : Candidates(sel) # {} }

\* The elements of the list are in document order, none twice.
InDocumentOrder(batch) ==
    \A i, j \in DOMAIN batch : i < j => batch[i] < batch[j]

\* C22: the batch a scan submits holds the never-seen nodes with text of the
\* first selector that reaches any, all of them and no other node, in
\* document order, and the scan marks no other node as seen.
C22_OneSelectorPerBatch ==
    [][Len(requests') = Len(requests) + 1 =>
          LET batch == requests'[Len(requests')].batchEntries
              top == First(Yielding)
          IN  /\ Yielding # {}
              /\ { batch[i] : i \in DOMAIN batch } = Candidates(top)
              /\ InDocumentOrder(batch)
              /\ processedTweets' = processedTweets \cup Candidates(top)]_vars

\* A round took the two nodes of the first selector, and the node only the
\* second selector reaches, on the page with its text, was left unseen.
C22_Witness ==
    \E r \in DOMAIN requests :
        /\ requests[r].batchEntries = <<1, 2>>
        /\ requests[r].status = "sent"
        /\ \E u \in Unseen : SelectorsOf(u) = {2}
        /\ processedTweets = {1, 2}

\* No timer is pending and no round is in flight: the content script does
\* nothing more until the page or the rules change.
Quiescent == pc = "running" /\ timers = 0 /\ InFlight = {}

\* C27: a node that is on the page with text, never seen, while the content
\* script runs with rules, is eventually submitted in a batch.
C27_EventuallySubmitted ==
    \A u \in Nodes :
        (pc = "running" /\ Len(filters) > 0 /\ u \in Unseen) ~> (u \in processedTweets)

\* The finite form: the content script never comes to rest with rules while a
\* node with text is on the page unseen.
C27_NoneLeftAtRest == (Quiescent /\ Len(filters) > 0) => Unseen = {}

====
